---- MODULE Spec2Model ----
(***************************************************************************)
(* Model of the olton/color routines (src/unnamed/part_000, bundled as     *)
(* src/lib/color.js) and of the colour record classes.                     *)
(*                                                                         *)
(* JavaScript values are records tagged by `kind`:                         *)
(*   "str"  a string, `str` its characters (one-character strings)         *)
(*   "arr"  an array holding one string; String(array) is that string      *)
(*   "rgb" "rgba" "hsv" "hsl" "hsla" "cmyk"  instances of the classes      *)
(*   "obj"  a plain object literal {h, s, v}                               *)
(*   "undef" "null" "num" "bool" "list"  the other values that occur       *)
(*   "throw" a raised exception, `err` its condition                       *)
(* JavaScript numbers are exact rationals <<n, d>> with d > 0 in lowest    *)
(* terms; the pair <<0, 0>> is NaN and <<1, 0>> is undefined in a number   *)
(* position (an argument that was not supplied).                           *)
(***************************************************************************)
EXTENDS Integers, Sequences, FiniteSets, TLC

----------------------------------------------------------------------------
(* Numbers *)
(* A value that is used more than once is passed to a further operator as  *)
(* a parameter, so that it is written once.                                *)

NaN == <<0, 0>>
Undefined == <<1, 0>>

RECURSIVE Gcd(_, _)
Gcd(a, b) == IF b = 0 THEN a ELSE Gcd(b, a % b)

Abs(n) == IF n < 0 THEN -n ELSE n

Reduce(n, d, g) ==
    IF d > 0 THEN <<n \div g, d \div g>> ELSE <<(-n) \div g, (-d) \div g>>

\* the fraction n / d, d # 0, in lowest terms
Norm(n, d) == Reduce(n, d, Gcd(Abs(n), Abs(d)))

Num(n) == <<n, 1>>
IsNum(x) == x[2] # 0

AddOver(x, y, g) ==
    Norm(x[1] * (y[2] \div g) + y[1] * (x[2] \div g), (x[2] \div g) * y[2])

\* x + y, x - y, x * y, x / y of JavaScript; NaN and undefined operands give NaN
Add(x, y) == IF IsNum(x) /\ IsNum(y) THEN AddOver(x, y, Gcd(x[2], y[2])) ELSE NaN
Sub(x, y) == IF IsNum(x) /\ IsNum(y) THEN AddOver(x, <<-y[1], y[2]>>, Gcd(x[2], y[2])) ELSE NaN
Mul(x, y) == IF IsNum(x) /\ IsNum(y) THEN Norm(x[1] * y[1], x[2] * y[2]) ELSE NaN
Div(x, y) == IF IsNum(x) /\ IsNum(y) /\ y[1] # 0 THEN Norm(x[1] * y[2], x[2] * y[1]) ELSE NaN

\* x === y, x < y, x <= y, x > y, x >= y: false as soon as an operand is NaN
Eq(x, y) == IsNum(x) /\ x = y
Lt(x, y) == IsNum(x) /\ IsNum(y) /\ x[1] * y[2] < y[1] * x[2]
Le(x, y) == IsNum(x) /\ IsNum(y) /\ x[1] * y[2] <= y[1] * x[2]
Gt(x, y) == Lt(y, x)
Ge(x, y) == Le(y, x)

\* the truthiness of a number: 0, NaN and undefined are falsy
Truthy(x) == IsNum(x) /\ x[1] # 0

MathFloor(x) == IF IsNum(x) THEN Num(x[1] \div x[2]) ELSE NaN
MathCeil(x) == IF IsNum(x) THEN Num(-((-x[1]) \div x[2])) ELSE NaN
\* Math.round(x) is floor(x + 1/2)
MathRound(x) == IF IsNum(x) THEN Num((2 * x[1] + x[2]) \div (2 * x[2])) ELSE NaN

Max2(x, y) == IF ~IsNum(x) \/ ~IsNum(y) THEN NaN ELSE IF Lt(x, y) THEN y ELSE x
Min2(x, y) == IF ~IsNum(x) \/ ~IsNum(y) THEN NaN ELSE IF Lt(y, x) THEN y ELSE x
MathMax(x, y, z) == Max2(Max2(x, y), z)
MathMin(x, y, z) == Min2(Min2(x, y), z)

\* x % y for y > 0: the remainder has the sign of the dividend
Trunc(x) == IF x[1] < 0 THEN Num(-((-x[1]) \div x[2])) ELSE Num(x[1] \div x[2])
Rem(x, y) == IF IsNum(x) /\ IsNum(y) THEN Sub(x, Mul(y, Trunc(Div(x, y)))) ELSE NaN

\* ToInt32 as the shift operators apply it: NaN becomes 0, fractions are cut
ToInt32(x) == IF IsNum(x) THEN Trunc(x)[1] ELSE 0

----------------------------------------------------------------------------
(* Strings *)

Digits16 == <<"0", "1", "2", "3", "4", "5", "6", "7", "8", "9", "a", "b", "c", "d", "e", "f">>
Upper16 == <<"0", "1", "2", "3", "4", "5", "6", "7", "8", "9", "A", "B", "C", "D", "E", "F">>

\* the character class [a-f\d] under the i flag, and [0-9A-F] under the i flag
IsHexChar(c) == \E i \in 1..16 : Digits16[i] = c \/ Upper16[i] = c
HexValue(c) == (CHOOSE i \in 1..16 : Digits16[i] = c \/ Upper16[i] = c) - 1

Slice1(s) == IF Len(s) = 0 THEN s ELSE SubSeq(s, 2, Len(s))

\* Number.prototype.toString(16) of an integer n >= 0, no padding
RECURSIVE ToString16(_)
ToString16(n) ==
    IF n < 16 THEN <<Digits16[n + 1]>>
    ELSE Append(ToString16(n \div 16), Digits16[(n % 16) + 1])

\* x.toString(16) of a JavaScript number that is NaN or an integer >= 0
NumToString16(x) == IF IsNum(x) THEN ToString16(x[1]) ELSE <<"N", "a", "N">>

\* parseInt(s, 16): the longest prefix of hex digits, NaN when it is empty
RECURSIVE HexPrefixValue(_, _, _)
HexPrefixValue(s, i, acc) ==
    IF i > Len(s) \/ ~IsHexChar(s[i]) THEN acc
    ELSE HexPrefixValue(s, i + 1, acc * 16 + HexValue(s[i]))
ParseInt16(s) ==
    IF Len(s) = 0 \/ ~IsHexChar(s[1]) THEN NaN ELSE Num(HexPrefixValue(s, 1, 0))

----------------------------------------------------------------------------
(* Values and the colour classes *)

Str(chars) == [kind |-> "str", str |-> chars]
Arr(chars) == [kind |-> "arr", str |-> chars]
Undef == [kind |-> "undef"]
Null == [kind |-> "null"]
Number(x) == [kind |-> "num", n |-> x]
Bool(b) == [kind |-> "bool", b |-> b]
List(items) == [kind |-> "list", items |-> items]
Obj(h, s, v) == [kind |-> "obj", h |-> h, s |-> s, v |-> v]
Throw(e) == [kind |-> "throw", err |-> e]

IsThrow(x) == x.kind = "throw"
IsString(x) == x.kind = "str"

\* f(x) where evaluating x may have raised: the exception propagates
Try(x, F(_)) == IF IsThrow(x) THEN x ELSE F(x)

\* a default parameter value replaces an argument that is undefined
Default(x, d) == IF x = Undefined THEN d ELSE x

HSV(h, s, v) ==
    [kind |-> "hsv", h |-> Default(h, Num(0)), s |-> Default(s, Num(0)), v |-> Default(v, Num(0))]
HSL(h, s, l) ==
    [kind |-> "hsl", h |-> Default(h, Num(0)), s |-> Default(s, Num(0)), l |-> Default(l, Num(0))]
HSLA(h, s, l, a) ==
    [kind |-> "hsla", h |-> Default(h, Num(0)), s |-> Default(s, Num(0)),
     l |-> Default(l, Num(0)), a |-> Default(a, Num(0))]
RGB(r, g, b) ==
    [kind |-> "rgb", r |-> Default(r, Num(0)), g |-> Default(g, Num(0)), b |-> Default(b, Num(0))]
RGBA(r, g, b, a) ==
    [kind |-> "rgba", r |-> Default(r, Num(0)), g |-> Default(g, Num(0)),
     b |-> Default(b, Num(0)), a |-> Default(a, Num(0))]
CMYK(c, m, y, k) ==
    [kind |-> "cmyk", c |-> Default(c, Num(0)), m |-> Default(m, Num(0)),
     y |-> Default(y, Num(0)), k |-> Default(k, Num(0))]

colorTypes ==
    [HEX |-> "hex", RGB |-> "rgb", RGBA |-> "rgba", HSV |-> "hsv", HSL |-> "hsl",
     HSLA |-> "hsla", CMYK |-> "cmyk", UNKNOWN |-> "unknown"]

colorDefaultProps ==
    [angle |-> Num(30), algorithm |-> 1, step |-> <<1, 10>>, distance |-> 5,
     tint1 |-> <<4, 5>>, tint2 |-> <<2, 5>>, shade1 |-> <<3, 5>>, shade2 |-> <<3, 10>>,
     alpha |-> Num(1)]

\* !color: undefined, null, 0, NaN and the empty string are falsy
Falsy(color) ==
    \/ color.kind \in {"undef", "null"}
    \/ color.kind = "num" /\ ~Truthy(color.n)
    \/ color.kind = "str" /\ Len(color.str) = 0
    \/ color.kind = "bool" /\ ~color.b

isHSV(color) == color.kind = "hsv"
isHSL(color) == color.kind = "hsl"
isHSLA(color) == color.kind = "hsla"
isRGB(color) == color.kind = "rgb"
isRGBA(color) == color.kind = "rgba"
isCMYK(color) == color.kind = "cmyk"

\* RegExp.test converts its argument to a string first: an array holding one
\* string converts to that string; the string forms of the other values of the
\* model (undefined, null, a number, "rgb(..)", "[object Object]") never match
isHEX(color) ==
    /\ color.kind \in {"str", "arr"}
    /\ Len(color.str) \in {4, 7}
    /\ color.str[1] = "#"
    /\ \A i \in 2..Len(color.str) : IsHexChar(color.str[i])

isColor(color) ==
    IF Falsy(color) THEN FALSE
    ELSE isHEX(color) \/ isRGB(color) \/ isRGBA(color) \/ isHSV(color)
         \/ isHSL(color) \/ isHSLA(color) \/ isCMYK(color)

colorType(color) ==
    IF isHEX(color) THEN colorTypes.HEX
    ELSE IF isRGB(color) THEN colorTypes.RGB
    ELSE IF isRGBA(color) THEN colorTypes.RGBA
    ELSE IF isHSV(color) THEN colorTypes.HSV
    ELSE IF isHSL(color) THEN colorTypes.HSL
    ELSE IF isHSLA(color) THEN colorTypes.HSLA
    ELSE IF isCMYK(color) THEN colorTypes.CMYK
    ELSE colorTypes.UNKNOWN

\* "#" followed by the two-fold repetition of each of the three digits when the
\* shorthand pattern matches; String.replace leaves other text as it is
expandHexColor(hex) ==
    IF isColor(hex) /\ ~IsString(hex) THEN hex
    ELSE IF ~IsString(hex) THEN Throw("InvalidInput")
    ELSE LET s == hex.str IN
         IF Len(s) = 4 /\ s[1] = "#"
         THEN IF \A i \in 2..4 : IsHexChar(s[i])
              THEN Str(<<"#", s[2], s[2], s[3], s[3], s[4], s[4]>>)
              ELSE Str(<<"#">> \o s)
         ELSE IF Len(s) > 0 /\ s[1] = "#" THEN hex ELSE Str(<<"#">> \o s)

----------------------------------------------------------------------------
(* Parsing and display text *)

Digits10 == <<"0", "1", "2", "3", "4", "5", "6", "7", "8", "9">>
IsDigit(c) == \E i \in 1..10 : Digits10[i] = c
DigitValue(c) == (CHOOSE i \in 1..10 : Digits10[i] = c) - 1

Capitals == <<"A", "B", "C", "D", "E", "F", "G", "H", "I", "J", "K", "L", "M", "N", "O", "P", "Q", "R", "S", "T", "U", "V", "W", "X", "Y", "Z">>
Letters == <<"a", "b", "c", "d", "e", "f", "g", "h", "i", "j", "k", "l", "m", "n", "o", "p", "q", "r", "s", "t", "u", "v", "w", "x", "y", "z">>

\* String.prototype.toLowerCase
ToLowerChar(c) ==
    IF \E i \in 1..26 : Capitals[i] = c
    THEN Letters[CHOOSE i \in 1..26 : Capitals[i] = c]
    ELSE c
toLowerCase(s) == [i \in 1..Len(s) |-> ToLowerChar(s[i])]

\* String.prototype.includes
includes(s, sub) ==
    \E i \in 1..(Len(s) + 1 - Len(sub)) : SubSeq(s, i, i + Len(sub) - 1) = sub

\* replace(/[^\d.,]/g, ""): every character that is no digit, dot or comma
\* is removed
IsNumericChar(c) == IsDigit(c) \/ c = "." \/ c = ","
KeepNumeric(s) == SelectSeq(s, IsNumericChar)

\* split(","): the pieces between the commas, one empty piece for ""
RECURSIVE Split(_)
Split(s) ==
    IF \E i \in 1..Len(s) : s[i] = ","
    THEN LET i == CHOOSE j \in 1..Len(s) : s[j] = "," /\ \A k \in 1..(j - 1) : s[k] # ","
         IN  <<SubSeq(s, 1, i - 1)>> \o Split(SubSeq(s, i + 1, Len(s)))
    ELSE <<s>>

\* the number of digits of s from position i on
RECURSIVE DigitRun(_, _)
DigitRun(s, i) == IF i <= Len(s) /\ IsDigit(s[i]) THEN 1 + DigitRun(s, i + 1) ELSE 0

\* the value of a run of decimal digits, 0 for the empty run
RECURSIVE DecValue(_)
DecValue(s) ==
    IF Len(s) = 0 THEN 0
    ELSE DecValue(SubSeq(s, 1, Len(s) - 1)) * 10 + DigitValue(s[Len(s)])

RECURSIVE Pow10(_)
Pow10(k) == IF k = 0 THEN 1 ELSE 10 * Pow10(k - 1)

\* the sign a numeric text starts with, and the text after it
SignOf(s) == IF Len(s) > 0 /\ s[1] = "-" THEN -1 ELSE 1
Unsigned(s) == IF Len(s) > 0 /\ (s[1] = "-" \/ s[1] = "+") THEN Slice1(s) ELSE s

\* parseInt(v): an optional sign and the longest run of digits, NaN when
\* there is no digit
ParseIntOf(sign, s, n) == IF n = 0 THEN NaN ELSE Num(sign * DecValue(SubSeq(s, 1, n)))
parseInt(v) == ParseIntOf(SignOf(v), Unsigned(v), DigitRun(Unsigned(v), 1))

\* parseFloat(v): an optional sign, digits, and digits after one dot; NaN
\* when there is no digit at all
ParseFloatFrac(sign, s, n, m) ==
    IF n = 0 /\ m = 0 THEN NaN
    ELSE Mul(Num(sign), Add(Num(DecValue(SubSeq(s, 1, n))),
                            Div(Num(DecValue(SubSeq(s, n + 2, n + 1 + m))), Num(Pow10(m)))))
ParseFloatOf(sign, s, n) ==
    ParseFloatFrac(sign, s, n,
                   IF n + 1 <= Len(s) /\ s[n + 1] = "." THEN DigitRun(s, n + 2) ELSE 0)
parseFloat(v) == ParseFloatOf(SignOf(v), Unsigned(v), DigitRun(Unsigned(v), 1))

\* a[i] of an array: undefined beyond its end
At(a, i) == IF i <= Len(a) THEN a[i] ELSE Undefined

\* the array a of parseColor
ParseColorNumbers(parts, floats) ==
    [i \in 1..Len(parts) |-> IF floats THEN parseFloat(parts[i]) ELSE parseInt(parts[i])]

ParseColorOf(_color, a) ==
    IF Len(_color) > 0 /\ _color[1] = "#" THEN expandHexColor(Str(_color))
    ELSE IF includes(_color, <<"r", "g", "b", "a">>) THEN RGBA(At(a, 1), At(a, 2), At(a, 3), At(a, 4))
    ELSE IF includes(_color, <<"r", "g", "b">>) THEN RGB(At(a, 1), At(a, 2), At(a, 3))
    ELSE IF includes(_color, <<"c", "m", "y", "k">>) THEN CMYK(At(a, 1), At(a, 2), At(a, 3), At(a, 4))
    ELSE IF includes(_color, <<"h", "s", "v">>) THEN HSV(At(a, 1), At(a, 2), At(a, 3))
    ELSE IF includes(_color, <<"h", "s", "l", "a">>) THEN HSLA(At(a, 1), At(a, 2), At(a, 3), At(a, 4))
    ELSE IF includes(_color, <<"h", "s", "l">>) THEN HSL(At(a, 1), At(a, 2), At(a, 3))
    ELSE Str(_color)

ParseColorLower(_color) ==
    ParseColorOf(_color,
                 ParseColorNumbers(Split(KeepNumeric(_color)), includes(_color, <<"h", "s">>)))

\* parseColor of a string
parseColor(_color) == ParseColorLower(toLowerCase(_color.str))

\* the decimal digits of an integer n >= 0
RECURSIVE ToString10(_)
ToString10(n) ==
    IF n < 10 THEN <<Digits10[n + 1]>>
    ELSE Append(ToString10(n \div 10), Digits10[(n % 10) + 1])

\* the digits after the dot of rem / d, rem < d, as far as they go
RECURSIVE FracDigits(_, _, _)
FracDigits(rem, d, left) ==
    IF rem = 0 \/ left = 0 THEN <<>>
    ELSE <<Digits10[((rem * 10) \div d) + 1]>> \o FracDigits((rem * 10) % d, d, left - 1)

\* a number whose decimal expansion ends
RECURSIVE Without(_, _)
Without(d, p) == IF d % p = 0 THEN Without(d \div p, p) ELSE d
HasFiniteDecimal(x) == IsNum(x) /\ Without(Without(x[2], 2), 5) = 1

\* String(x) of a number x: exact for NaN, undefined and the numbers whose
\* decimal expansion ends within 17 digits
UnsignedToString(n, d) ==
    ToString10(n \div d) \o (IF n % d = 0 THEN <<>> ELSE <<".">> \o FracDigits(n % d, d, 17))
NumberToString(x) ==
    IF x = NaN THEN <<"N", "a", "N">>
    ELSE IF x = Undefined THEN <<"u", "n", "d", "e", "f", "i", "n", "e", "d">>
    ELSE IF x[1] < 0 THEN <<"-">> \o UnsignedToString(-x[1], x[2])
    ELSE UnsignedToString(x[1], x[2])

\* the toString() of the six classes; a string is its own text
Listed3(name, x, y, z) ==
    Str(name \o <<"(">> \o NumberToString(x) \o <<",">> \o NumberToString(y) \o <<",">>
        \o NumberToString(z) \o <<")">>)
Listed4(name, x, y, z, w) ==
    Str(name \o <<"(">> \o NumberToString(x) \o <<",">> \o NumberToString(y) \o <<",">>
        \o NumberToString(z) \o <<",">> \o NumberToString(w) \o <<")">>)

colorToString(_color) ==
    CASE _color.kind = "rgb" -> Listed3(<<"r", "g", "b">>, _color.r, _color.g, _color.b)
      [] _color.kind = "rgba" -> Listed4(<<"r", "g", "b", "a">>, _color.r, _color.g, _color.b, _color.a)
      [] _color.kind = "hsv" -> Listed3(<<"h", "s", "v">>, _color.h, _color.s, _color.v)
      [] _color.kind = "hsl" -> Listed3(<<"h", "s", "l">>, _color.h, _color.s, _color.l)
      [] _color.kind = "hsla" -> Listed4(<<"h", "s", "l", "a">>, _color.h, _color.s, _color.l, _color.a)
      [] _color.kind = "cmyk" -> Listed4(<<"c", "m", "y", "k">>, _color.c, _color.m, _color.y, _color.k)
      [] _color.kind = "arr" -> Str(_color.str)
      [] OTHER -> _color

----------------------------------------------------------------------------
(* Pairwise conversions *)

\* the text a value presents to RegExp.exec
TextOf(x) == IF x.kind \in {"str", "arr"} THEN x.str ELSE <<"?">>

\* /^#?([a-f\d]{2})([a-f\d]{2})([a-f\d]{2})$/i
MatchesSixDigits(s) ==
    \/ Len(s) = 7 /\ s[1] = "#" /\ \A i \in 2..7 : IsHexChar(s[i])
    \/ Len(s) = 6 /\ \A i \in 1..6 : IsHexChar(s[i])

\* result[1], result[2], result[3] are read before result is tested, so a text
\* that does not match raises a TypeError instead of returning null
hex2rgb(hex) ==
    LET e == expandHexColor(hex) IN
    IF IsThrow(e) THEN e
    ELSE LET s == TextOf(e) IN
         IF ~MatchesSixDigits(s) THEN Throw("TypeError")
         ELSE LET d == IF Len(s) = 7 THEN Slice1(s) ELSE s IN
              RGB(ParseInt16(SubSeq(d, 1, 2)), ParseInt16(SubSeq(d, 3, 4)),
                  ParseInt16(SubSeq(d, 5, 6)))

\* (1 << 24) + (r << 16) + (g << 8) + b: the shifts turn NaN into 0, the last
\* addend is added as it is
\* rgb2hex without the 1 << 24 and the slice(1) that pad the digits
rgb2hexUnpadded(rgb) ==
    Str(<<"#">> \o NumToString16(Add(Num(ToInt32(rgb.r) * 65536 + ToInt32(rgb.g) * 256), rgb.b)))

rgb2hex(rgb) ==
    LET total == Add(Num(16777216 + ToInt32(rgb.r) * 65536 + ToInt32(rgb.g) * 256), rgb.b)
    IN  Str(<<"#">> \o Slice1(NumToString16(total)))

\* rgb2hsv's hue without the + 360 of the branch max === r && g < b
Rgb2hsvHueNoTurn(r, g, b, max, min, delta) ==
    IF Eq(max, min) THEN Num(0)
    ELSE IF Eq(max, r) THEN Mul(Num(60), Div(Sub(g, b), delta))
    ELSE IF Eq(max, g) THEN Add(Mul(Num(60), Div(Sub(b, r), delta)), Num(120))
    ELSE IF Eq(max, b) THEN Add(Mul(Num(60), Div(Sub(r, g), delta)), Num(240))
    ELSE Num(0)

\* the hue with the full turn added on both sides of g = b
Rgb2hsvHueTurned(r, g, b, max, min, delta) ==
    IF Eq(max, min) THEN Num(0)
    ELSE IF Eq(max, r) THEN Add(Mul(Num(60), Div(Sub(g, b), delta)), Num(360))
    ELSE IF Eq(max, g) THEN Add(Mul(Num(60), Div(Sub(b, r), delta)), Num(120))
    ELSE IF Eq(max, b) THEN Add(Mul(Num(60), Div(Sub(r, g), delta)), Num(240))
    ELSE Num(0)

Rgb2hsvHue(r, g, b, max, min, delta) ==
    IF Eq(max, min) THEN Num(0)
    ELSE IF Eq(max, r) /\ Ge(g, b) THEN Mul(Num(60), Div(Sub(g, b), delta))
    ELSE IF Eq(max, r) /\ Lt(g, b) THEN Add(Mul(Num(60), Div(Sub(g, b), delta)), Num(360))
    ELSE IF Eq(max, g) THEN Add(Mul(Num(60), Div(Sub(b, r), delta)), Num(120))
    ELSE IF Eq(max, b) THEN Add(Mul(Num(60), Div(Sub(r, g), delta)), Num(240))
    ELSE Num(0)

Rgb2hsvOf(r, g, b, max, min) ==
    [kind |-> "hsv",
     h |-> Rgb2hsvHue(r, g, b, max, min, Sub(max, min)),
     s |-> IF Eq(max, Num(0)) THEN Num(0) ELSE Sub(Num(1), Div(min, max)),
     v |-> max]

Rgb2hsvUnit(r, g, b) == Rgb2hsvOf(r, g, b, MathMax(r, g, b), MathMin(r, g, b))

rgb2hsv(rgb) == Rgb2hsvUnit(Div(rgb.r, Num(255)), Div(rgb.g, Num(255)), Div(rgb.b, Num(255)))

\* the switch on Hi: r, g and b stay undefined when Hi is none of 0..5
Hsv2rgbSector(Hi, v, Vmin, Vinc, Vdec) ==
    IF Hi = Num(0) THEN <<v, Vinc, Vmin>>
    ELSE IF Hi = Num(1) THEN <<Vdec, v, Vmin>>
    ELSE IF Hi = Num(2) THEN <<Vmin, v, Vinc>>
    ELSE IF Hi = Num(3) THEN <<Vmin, Vdec, v>>
    ELSE IF Hi = Num(4) THEN <<Vinc, Vmin, v>>
    ELSE IF Hi = Num(5) THEN <<v, Vmin, Vdec>>
    ELSE <<Undefined, Undefined, Undefined>>

\* new RGB(Math.round((r * 255) / 100), ..)
Hsv2rgbScaled(rgb) ==
    RGB(MathRound(Div(Mul(rgb[1], Num(255)), Num(100))),
        MathRound(Div(Mul(rgb[2], Num(255)), Num(100))),
        MathRound(Div(Mul(rgb[3], Num(255)), Num(100))))

Hsv2rgbAlpha(Hi, v, Vmin, alpha) ==
    Hsv2rgbScaled(Hsv2rgbSector(Hi, v, Vmin, Add(Vmin, alpha), Sub(v, alpha)))

Hsv2rgbVmin(h, v, Vmin) ==
    Hsv2rgbAlpha(MathFloor(Div(h, Num(60))), v, Vmin,
                 Mul(Sub(v, Vmin), Div(Rem(h, Num(60)), Num(60))))

Hsv2rgbPercent(h, s, v) == Hsv2rgbVmin(h, v, Div(Mul(Sub(Num(100), s), v), Num(100)))

hsv2rgb(hsv) == Hsv2rgbPercent(hsv.h, Mul(hsv.s, Num(100)), Mul(hsv.v, Num(100)))

hsv2hex(hsv) == rgb2hex(hsv2rgb(hsv))

hex2hsv(hex) == Try(hex2rgb(hex), rgb2hsv)

\* 1 - cmyk.k === 0 ? 0 : (1 - x - cmyk.k) / (1 - cmyk.k), then Math.round(.. * 100)
Rgb2cmykPart(x, k, rest) ==
    MathRound(Mul(IF Eq(rest, Num(0)) THEN Num(0) ELSE Div(Sub(Sub(Num(1), x), k), rest),
                  Num(100)))

Rgb2cmykOf(r, g, b, k, rest) ==
    [kind |-> "cmyk",
     c |-> Rgb2cmykPart(r, k, rest),
     m |-> Rgb2cmykPart(g, k, rest),
     y |-> Rgb2cmykPart(b, k, rest),
     k |-> MathRound(Mul(k, Num(100)))]

Rgb2cmykK(r, g, b, k) == Rgb2cmykOf(r, g, b, k, Sub(Num(1), k))

Rgb2cmykUnit(r, g, b) ==
    Rgb2cmykK(r, g, b, MathMin(Sub(Num(1), r), Sub(Num(1), g), Sub(Num(1), b)))

rgb2cmyk(rgb) == Rgb2cmykUnit(Div(rgb.r, Num(255)), Div(rgb.g, Num(255)), Div(rgb.b, Num(255)))

\* 255 * (1 - x / 100) * (1 - cmyk.k / 100)
Cmyk2rgbChannel(x, black) == Mul(Mul(Num(255), Sub(Num(1), Div(x, Num(100)))), black)

Cmyk2rgbOf(cmyk, black) ==
    RGB(MathFloor(Cmyk2rgbChannel(cmyk.c, black)),
        MathCeil(Cmyk2rgbChannel(cmyk.m, black)),
        MathCeil(Cmyk2rgbChannel(cmyk.y, black)))

cmyk2rgb(cmyk) == Cmyk2rgbOf(cmyk, Sub(Num(1), Div(cmyk.k, Num(100))))

Hsv2hslD(h, s, l, d) ==
    HSL(h,
        IF Eq(l, Num(0)) THEN Num(0) ELSE IF Eq(d, Num(0)) THEN Num(0) ELSE Div(s, d),
        Div(l, Num(2)))

Hsv2hslOf(h, s, l) == Hsv2hslD(h, s, l, IF Le(l, Num(1)) THEN l ELSE Sub(Num(2), l))

hsv2hsl(hsv) == Hsv2hslOf(hsv.h, Mul(hsv.s, hsv.v), Mul(Sub(Num(2), hsv.s), hsv.v))

Hsl2hsvSum(h, s, sum) ==
    HSV(h,
        IF Eq(sum, Num(0)) THEN Num(0) ELSE Div(Mul(Num(2), s), sum),
        Div(sum, Num(2)))

Hsl2hsvS(h, l, s) == Hsl2hsvSum(h, s, Add(l, s))

Hsl2hsvOf(hsl, l) == Hsl2hsvS(hsl.h, l, Mul(hsl.s, IF Le(l, Num(1)) THEN l ELSE Sub(Num(2), l)))

hsl2hsv(hsl) == Hsl2hsvOf(hsl, Mul(hsl.l, Num(2)))

rgb2websafe(rgb) ==
    RGB(Mul(MathRound(Div(rgb.r, Num(51))), Num(51)),
        Mul(MathRound(Div(rgb.g, Num(51))), Num(51)),
        Mul(MathRound(Div(rgb.b, Num(51))), Num(51)))

rgba2websafe(rgba) ==
    LET rgbWebSafe == rgb2websafe(rgba)
    IN  RGBA(rgbWebSafe.r, rgbWebSafe.g, rgbWebSafe.b, rgba.a)

RgbToWebsafeHex(rgb) == rgb2hex(rgb2websafe(rgb))
hex2websafe(hex) == Try(hex2rgb(hex), RgbToWebsafeHex)

----------------------------------------------------------------------------
(* Conversions of any colour *)

toRGB(color) ==
    IF isRGB(color) THEN color
    ELSE IF isRGBA(color) THEN RGB(color.r, color.g, color.b)
    ELSE IF isHSV(color) THEN hsv2rgb(color)
    ELSE IF isHSL(color) THEN hsv2rgb(hsl2hsv(color))
    ELSE IF isHSLA(color) THEN hsv2rgb(hsl2hsv(color))
    ELSE IF isHEX(color) THEN hex2rgb(color)
    ELSE IF isCMYK(color) THEN cmyk2rgb(color)
    ELSE Throw("UnknownFormat")

toHEX(color) ==
    IF IsString(color) THEN expandHexColor(color)
    ELSE Try(toRGB(color), rgb2hex)

\* the value toRGBA returns; an RGBA argument is returned itself, after its
\* field a was overwritten when alpha is truthy
toRGBA(color, alpha) ==
    IF isRGBA(color)
    THEN IF Truthy(alpha) THEN [color EXCEPT !.a = alpha] ELSE color
    ELSE LET NewRGBA(rgb) == RGBA(rgb.r, rgb.g, rgb.b, alpha)
         IN  Try(toRGB(color), NewRGBA)

\* the argument record as toRGBA leaves it
toRGBA_color(color, alpha) ==
    IF isRGBA(color) /\ Truthy(alpha) THEN [color EXCEPT !.a = alpha] ELSE color

toHSV(color) == Try(toRGB(color), rgb2hsv)

RgbToHsl(rgb) == hsv2hsl(rgb2hsv(rgb))
toHSL(color) == Try(toRGB(color), RgbToHsl)

\* alpha = 1 when the argument is undefined
toHSLA(color, alpha) ==
    LET a == Default(alpha, Num(1)) IN
    IF isHSLA(color)
    THEN IF Truthy(a) THEN [color EXCEPT !.a = a] ELSE color
    ELSE LET NewHSLA(rgb) ==
                 LET hsla == RgbToHsl(rgb) IN HSLA(hsla.h, hsla.s, hsla.l, a)
         IN  Try(toRGB(color), NewHSLA)

\* the argument record as toHSLA leaves it
toHSLA_color(color, alpha) ==
    LET a == Default(alpha, Num(1)) IN
    IF isHSLA(color) /\ Truthy(a) THEN [color EXCEPT !.a = a] ELSE color

toCMYK(color) == Try(toRGB(color), rgb2cmyk)

\* mode is lower-cased by the caller of this operator; alpha = 1 when undefined
toColor(color, mode, alpha) ==
    LET a == Default(alpha, Num(1)) IN
    CASE mode = "hex" -> toHEX(color)
      [] mode = "rgb" -> toRGB(color)
      [] mode = "rgba" -> toRGBA(color, a)
      [] mode = "hsl" -> toHSL(color)
      [] mode = "hsla" -> toHSLA(color, a)
      [] mode = "hsv" -> toHSV(color)
      [] mode = "cmyk" -> toCMYK(color)
      [] OTHER -> color

\* the argument record as toColor leaves it
toColor_color(color, mode, alpha) ==
    LET a == Default(alpha, Num(1)) IN
    CASE mode = "rgba" -> toRGBA_color(color, a)
      [] mode = "hsla" -> toHSLA_color(color, a)
      [] OTHER -> color

RgbToWebsafeHsv(rgb) == rgb2hsv(rgb2websafe(rgb))
hsv2websafe(hsv) == Try(toRGB(hsv), RgbToWebsafeHsv)

RgbToWebsafeHsl(rgb) == hsv2hsl(rgb2hsv(rgb2websafe(rgb)))
hsl2websafe(hsl) == Try(toRGB(hsl), RgbToWebsafeHsl)

cmyk2websafe(cmyk) == rgb2cmyk(rgb2websafe(cmyk2rgb(cmyk)))

websafe(color) ==
    IF isHEX(color) THEN hex2websafe(color)
    ELSE IF isRGB(color) THEN rgb2websafe(color)
    ELSE IF isRGBA(color) THEN rgba2websafe(color)
    ELSE IF isHSV(color) THEN hsv2websafe(color)
    ELSE IF isHSL(color) THEN hsl2websafe(color)
    ELSE IF isCMYK(color) THEN cmyk2websafe(color)
    ELSE color

\* toHEX(color1) === toHEX(color2)
SameHex(h1, h2) == IF IsThrow(h1) THEN h1 ELSE IF IsThrow(h2) THEN h2 ELSE Bool(h1 = h2)

equal(color1, color2) ==
    IF ~isColor(color1) \/ ~isColor(color2) THEN Bool(FALSE)
    ELSE SameHex(toHEX(color1), toHEX(color2))

\* YIQ < 128 with YIQ = (rgb.r * 299 + rgb.g * 587 + rgb.b * 114) / 1000
IsDarkYIQ(rgb) ==
    Bool(Lt(Div(Add(Add(Mul(rgb.r, Num(299)), Mul(rgb.g, Num(587))), Mul(rgb.b, Num(114))),
                Num(1000)),
            Num(128)))

\* a bare return yields undefined
isDark(color) ==
    IF ~isColor(color) THEN Undef ELSE Try(toRGB(color), IsDarkYIQ)

\* !x of a value that is undefined or a boolean
Not(x) == Bool(Falsy(x))

isLight(color) == Try(isDark(color), Not)

----------------------------------------------------------------------------
(* Derived colours *)

\* grayscale that returns the neutral RGB without converting it back
NeutralOf(rgb) ==
    RGB(MathRound(Add(Add(Mul(rgb.r, <<2125, 10000>>), Mul(rgb.g, <<7154, 10000>>)),
                      Mul(rgb.b, <<721, 10000>>))), rgb.r, rgb.r)
grayscaleAsRGB(color) == Try(toRGB(color), NeutralOf)

grayscale(color) ==
    LET Gray(rgb) ==
            LET type == colorType(color)
                gray == MathRound(Add(Add(Mul(rgb.r, <<2125, 10000>>),
                                          Mul(rgb.g, <<7154, 10000>>)),
                                      Mul(rgb.b, <<721, 10000>>)))
                mono == RGB(gray, gray, gray)
            IN  toColor(mono, type, Undefined)
    IN  Try(toRGB(color), Gray)

Clamp255(n) == IF n > 255 THEN 255 ELSE IF n < 0 THEN 0 ELSE n

\* lighten's inner function calc(_color, _amount) for an integer _amount;
\* num >> 16, (num >> 8) & 0xff and num & 0xff, with NaN shifted as 0
calc(_color, _amount) ==
    LET col == Slice1(_color.str)
        num == ToInt32(ParseInt16(col))
        r == Clamp255((num \div 65536) + _amount)
        b == Clamp255(((num \div 256) % 256) + _amount)
        g == Clamp255((num % 256) + _amount)
    IN  Str(<<"#">> \o ToString16(g + b * 256 + r * 65536))

\* while (h >= 360.0) h -= 360.0; while (h < 0.0) h += 360.0;
RECURSIVE WrapDown(_)
WrapDown(h) == IF Ge(h, Num(360)) THEN WrapDown(Sub(h, Num(360))) ELSE h
RECURSIVE WrapUp(_)
WrapUp(h) == IF Lt(h, Num(0)) THEN WrapUp(Add(h, Num(360))) ELSE h
shift(h, s) == WrapUp(WrapDown(Add(h, s)))

hueShift(color, angle, alpha) ==
    LET Turn(hsv) ==
            LET type == colorType(color)
                h == shift(hsv.h, angle)
            IN  toColor([hsv EXCEPT !.h = h], type, alpha)
    IN  Try(toHSV(color), Turn)

----------------------------------------------------------------------------
(* Colour schemes *)

\* Object.assign({}, colorDefaultProps, options)
MergeOptions(options) ==
    [key \in DOMAIN colorDefaultProps |->
        IF key \in DOMAIN options THEN options[key] ELSE colorDefaultProps[key]]

clamp(num, min, max) == Max2(min, Min2(num, max))

toRange(a, b, c) == IF Lt(a, b) THEN b ELSE IF Gt(a, c) THEN c ELSE a

\* rgb.x = toRange(Math.round(rgb.x + (255 - rgb.x) * tint), 0, 255) for x = r, g, b
Tinted(rgb, tint) ==
    LET T(x) == toRange(MathRound(Add(x, Mul(Sub(Num(255), x), tint))), Num(0), Num(255))
    IN  [rgb EXCEPT !.r = T(rgb.r), !.g = T(rgb.g), !.b = T(rgb.b)]

\* rgb.x = toRange(Math.round(rgb.x * shade), 0, 255) for x = r, g, b
Shaded(rgb, shade) ==
    LET S(x) == toRange(MathRound(Mul(x, shade)), Num(0), Num(255))
    IN  [rgb EXCEPT !.r = S(rgb.r), !.g = S(rgb.g), !.b = S(rgb.b)]

\* the samples pushed by the loop of algorithm 2 from its i-th round on
RECURSIVE Mono2(_, _, _, _, _, _)
Mono2(i, distance, step, h, s, v) ==
    IF i > distance THEN <<>>
    ELSE LET v1 == clamp(Sub(v, step), Num(0), Num(1))
             s1 == clamp(Sub(s, step), Num(0), Num(1))
         IN  <<Obj(h, s1, v1)>> \o Mono2(i + 1, distance, step, h, s1, v1)

\* the samples pushed by the loop of algorithm 3 from its i-th round on
RECURSIVE Mono3(_, _, _, _, _, _)
Mono3(i, distance, step, h, s, v) ==
    IF i > distance THEN <<>>
    ELSE LET v1 == clamp(Sub(v, step), Num(0), Num(1))
         IN  <<Obj(h, s, v1)>> \o Mono3(i + 1, distance, step, h, s, v1)

\* the array scheme at the end of the switch on name
SchemeSamples(hsv, name, opt) ==
    LET h == hsv.h
        s == hsv.s
        v == hsv.v
    IN
    CASE name \in {"monochromatic", "mono"} ->
           IF opt.algorithm = 1
           THEN <<rgb2hsv(Tinted(hsv2rgb(hsv), opt.tint1)),
                  rgb2hsv(Tinted(hsv2rgb(hsv), opt.tint2)),
                  hsv,
                  rgb2hsv(Shaded(hsv2rgb(hsv), opt.shade1)),
                  rgb2hsv(Shaded(hsv2rgb(hsv), opt.shade2))>>
           ELSE IF opt.algorithm = 2
           THEN <<hsv>> \o Mono2(1, opt.distance, opt.step, h, s, v)
           ELSE IF opt.algorithm = 3
           THEN <<hsv>> \o Mono3(1, opt.distance, opt.step, h, s, v)
           ELSE <<Obj(h, s, clamp(Add(hsv.v, Mul(opt.step, Num(2))), Num(0), Num(1))),
                  Obj(h, s, clamp(Add(hsv.v, opt.step), Num(0), Num(1))),
                  hsv,
                  Obj(h, hsv.s, clamp(Sub(hsv.v, opt.step), Num(0), Num(1))),
                  Obj(h, hsv.s, clamp(Sub(hsv.v, Mul(opt.step, Num(2))), Num(0), Num(1)))>>
      [] name \in {"complementary", "complement", "comp"} ->
           <<hsv, HSV(shift(hsv.h, Num(180)), s, v)>>
      [] name \in {"double-complementary", "double-complement", "double"} ->
           LET h1 == shift(h, Num(180))
               h2 == shift(h1, opt.angle)
               h3 == shift(h2, Num(180))
           IN  <<hsv, HSV(h1, s, v), HSV(h2, s, v), HSV(h3, s, v)>>
      [] name \in {"analogous", "analog"} ->
           <<HSV(shift(h, opt.angle), s, v), hsv,
             HSV(shift(hsv.h, Sub(Num(0), opt.angle)), s, v)>>
      [] name \in {"triadic", "triad"} ->
           LET h1 == shift(h, Num(120))
               h2 == shift(h1, Num(120))
           IN  <<hsv, HSV(h1, s, v), HSV(h2, s, v)>>
      [] name \in {"tetradic", "tetra"} ->
           LET h1 == shift(hsv.h, Num(180))
               h2 == shift(hsv.h, Mul(Num(-1), opt.angle))
               h3 == shift(h2, Num(180))
           IN  <<hsv, HSV(h1, s, v), HSV(h2, s, v), HSV(h3, s, v)>>
      [] name = "square" ->
           LET h1 == shift(h, Num(90))
               h2 == shift(h1, Num(90))
               h3 == shift(h2, Num(90))
           IN  <<hsv, HSV(h1, s, v), HSV(h2, s, v), HSV(h3, s, v)>>
      [] name \in {"split-complementary", "split-complement", "split"} ->
           <<HSV(shift(h, Sub(Num(180), opt.angle)), s, v), hsv,
             HSV(shift(hsv.h, Add(Num(180), opt.angle)), s, v)>>
      [] OTHER -> <<>>

SchemeNames ==
    {"monochromatic", "mono", "complementary", "complement", "comp",
     "double-complementary", "double-complement", "double", "analogous", "analog",
     "triadic", "triad", "tetradic", "tetra", "square",
     "split-complementary", "split-complement", "split"}

\* source.map(f): the first element on which f raises ends the call
Mapped(mapped, bad) ==
    IF bad = {} THEN List(mapped)
    ELSE mapped[CHOOSE i \in bad : \A j \in bad : i <= j]

FirstRaised(mapped) == Mapped(mapped, {i \in 1..Len(mapped) : IsThrow(mapped[i])})

MapAll(source, F(_)) == FirstRaised([i \in 1..Len(source) |-> F(source[i])])

convert(source, format, opt) ==
    LET ToRGBA(v) == toRGBA(v, opt.alpha)
        ToHSLA(v) == toHSLA(v, opt.alpha)
    IN
    CASE format = "hex" -> MapAll(source, toHEX)
      [] format = "rgb" -> MapAll(source, toRGB)
      [] format = "rgba" -> MapAll(source, ToRGBA)
      [] format = "hsl" -> MapAll(source, toHSL)
      [] format = "hsla" -> MapAll(source, ToHSLA)
      [] format = "cmyk" -> MapAll(source, toCMYK)
      [] OTHER -> List(source)

createColorScheme(color, name, format, options) ==
    LET opt == MergeOptions(options)
        Build(hsv) ==
            IF isHSV(hsv) = FALSE THEN Bool(FALSE)
            ELSE convert(SchemeSamples(hsv, name, opt), format, opt)
    IN  Try(toHSV(color), Build)

\* what createColorScheme passes to console.warn, "" when it does not warn
SchemeWarning(hsv, name) ==
    IF IsThrow(hsv) THEN ""
    ELSE IF isHSV(hsv) = FALSE THEN "The value is a not supported color format!"
    ELSE IF name \notin SchemeNames THEN "Unknown scheme name"
    ELSE ""

createColorScheme_warn(color, name) == SchemeWarning(toHSV(color), name)

----------------------------------------------------------------------------
(* The values a caller passes.  The colors are ones on which arithmetic in  *)
(* IEEE doubles and in exact rationals agree in every operation below: no   *)
(* Math.round falls on a computed half that a double represents inexactly.  *)

\* the largest |amount| a caller passes: 16 is the least amount that lifts a
\* channel of 0 to two hex digits
MaxAmount == 17
\* lighten's loop is followed while amount >= -MaxRetry: an amount of -255 or
\* less clamps every channel of every color to 0
MaxRetry == 256

Hex(text) == Str(text)

HexColors ==
    {Hex(<<"#", "0", "0", "0", "0", "0", "0">>), Hex(<<"#", "f", "f", "f", "f", "f", "f">>),
     Hex(<<"#", "f", "f", "f">>), Hex(<<"#", "F", "F", "F">>),
     Hex(<<"#", "0", "a", "1", "4", "1", "e">>), Hex(<<"#", "A", "b", "C", "d", "E", "f">>),
     Hex(<<"#", "0", "5", "0", "5", "0", "5">>), Hex(<<"#", "f", "f", "6", "6", "0", "0">>)}

Units == {Num(0), <<1, 2>>, Num(1)}
Hues == {Num(0), Num(60), Num(210), Num(360)}

RGBColors == {RGB(Num(r), Num(g), Num(b)) : r \in {0, 13, 255}, g \in {0, 102}, b \in {0, 255}}
RGBAColors == {RGBA(Num(r), Num(128), Num(5), a) : r \in {0, 255}, a \in Units}
HSVColors == {HSV(h, s, v) : h \in Hues, s \in {<<1, 2>>, Num(1)}, v \in {<<1, 2>>, Num(1)}}
HSLColors == {HSL(h, Num(1), l) : h \in Hues, l \in {Num(0), <<1, 2>>}}
HSLAColors == {HSLA(h, Num(1), <<1, 2>>, a) : h \in {Num(60), Num(210), Num(360)}, a \in Units}
CMYKColors == {CMYK(Num(c), Num(0), Num(y), Num(k)) : c \in {0, 100}, y \in {0, 50}, k \in {0, 50}}

Colors ==
    HexColors \cup RGBColors \cup RGBAColors \cup HSVColors \cup HSLColors
    \cup HSLAColors \cup CMYKColors

\* values that are no colour record and no string of the HEX form
Others ==
    {Undef, Null, Number(Num(0)), Number(Num(42)), Str(<<>>), Str(<<"a", "b", "c">>),
     Str(<<"f", "f", "0", "0", "0", "0">>), Str(<<"#", "1", "2">>),
     Str(<<"#", "x", "y", "z">>), Obj(Num(0), Num(1), Num(1)),
     Arr(<<"#", "f", "f", "f">>), Arr(<<"#", "f", "f", "f", "f", "f", "f">>)}

Inputs == Colors \cup Others

Alphas == {Undefined, Num(0), <<1, 2>>, Num(1)}
Modes == {"hex", "rgb", "rgba", "hsl", "hsla", "hsv", "cmyk"}
Formats == Modes \cup {"raw"}
Amounts == {-MaxAmount, -10, -1, 0, 1, 10, MaxAmount}
Angles == {Num(-30), Num(0), Num(90), Num(360)}
Algorithms == {1, 2, 3, 4}

----------------------------------------------------------------------------
(* State *)

VARIABLES
    color,      \* the value the caller holds and passes as the first argument
    ret,        \* what the last call returned, or raised
    op,         \* the function called last
    args,       \* the other arguments of the last call
    warned,     \* what the last call passed to console.warn, "" if nothing
    pc,         \* "ready" for a call, "loop" inside lighten's do .. while, "done"
    amount,     \* lighten: amount
    ring,       \* lighten: ring
    type,       \* lighten: type
    held,       \* the _value of each Color object constructed on the record color
    calls       \* the number of method calls made on these objects

vars == <<color, ret, op, args, warned, pc, amount, ring, type, held, calls>>

None == [kind |-> "none"]
NoArgs == [alpha |-> Undefined, mode |-> "", name |-> "", n |-> 0]

\* amount after k rounds of ring ? amount-- : amount++
LightenAmount(_amount, _ring, k) == IF _ring THEN _amount - k ELSE _amount + k

\* the rounds, of the next sixteen down to -MaxRetry, whose res ends the loop
LightenEnds(hex, _amount, _ring) ==
    {k \in 0..15 : /\ LightenAmount(_amount, _ring, k) >= -MaxRetry
                   /\ Len(calc(hex, LightenAmount(_amount, _ring, k)).str) >= 7}

\* the res that ends lighten's do .. while started with amount, None when the
\* loop is still running below -MaxRetry; the rounds are taken sixteen at a
\* time and the first that ends the loop gives res
RECURSIVE LightenRounds(_, _, _)
LightenRounds(hex, _amount, _ring) ==
    IF _amount < -MaxRetry THEN None
    ELSE IF LightenEnds(hex, _amount, _ring) = {}
         THEN LightenRounds(hex, LightenAmount(_amount, _ring, 16), _ring)
         ELSE calc(hex, LightenAmount(_amount, _ring,
                        CHOOSE k \in LightenEnds(hex, _amount, _ring) :
                            \A j \in LightenEnds(hex, _amount, _ring) : k <= j))

LightenReturn(res, _type) == IF res = None THEN None ELSE toColor(res, _type, Undefined)

\* the value lighten(color, amount) returns or raises, None when it does not
\* return
lighten(_color, _amount) ==
    IF IsThrow(toHEX(_color)) THEN toHEX(_color)
    ELSE LightenReturn(LightenRounds(toHEX(_color), _amount, _amount > 0), colorType(_color))

darken(_color, _amount) == lighten(_color, -1 * Abs(_amount))

Init ==
    /\ color \in Inputs
    /\ ret = None
    /\ op = "new"
    /\ args = NoArgs
    /\ warned = ""
    /\ pc = "ready"
    /\ amount = 0
    /\ ring = FALSE
    /\ type = ""
    /\ held = <<>>
    /\ calls = 0

\* a call name(color, ..) that returns or raises value and leaves the argument
\* record as after
Call(name, a, value, after, warning) ==
    /\ pc = "ready"
    /\ pc' = "done"
    /\ op' = name
    /\ args' = a
    /\ ret' = value
    /\ color' = after
    /\ warned' = warning
    /\ UNCHANGED <<amount, ring, type, held, calls>>

ToRGB == Call("toRGB", NoArgs, toRGB(color), color, "")
ToHSV == Call("toHSV", NoArgs, toHSV(color), color, "")
ToHSL == Call("toHSL", NoArgs, toHSL(color), color, "")
ToCMYK == Call("toCMYK", NoArgs, toCMYK(color), color, "")
ToHEX == Call("toHEX", NoArgs, toHEX(color), color, "")

ToRGBA ==
    \E alpha \in Alphas :
        Call("toRGBA", [NoArgs EXCEPT !.alpha = alpha],
             toRGBA(color, alpha), toRGBA_color(color, alpha), "")

ToHSLA ==
    \E alpha \in Alphas :
        Call("toHSLA", [NoArgs EXCEPT !.alpha = alpha],
             toHSLA(color, alpha), toHSLA_color(color, alpha), "")

ToColor ==
    \E mode \in Modes \cup {"lab"}, alpha \in Alphas :
        Call("toColor", [NoArgs EXCEPT !.alpha = alpha, !.mode = mode],
             toColor(color, mode, alpha), toColor_color(color, mode, alpha), "")

Websafe == Call("websafe", NoArgs, websafe(color), color, "")
Grayscale == Call("grayscale", NoArgs, grayscale(color), color, "")
IsDark == Call("isDark", NoArgs, isDark(color), color, "")
IsLight == Call("isLight", NoArgs, isLight(color), color, "")

HueShift ==
    \E angle \in Angles, alpha \in {Undefined, <<1, 2>>} :
        Call("hueShift", [NoArgs EXCEPT !.alpha = alpha, !.n = angle[1]],
             hueShift(color, angle, alpha), color, "")

Hex2rgb == Call("hex2rgb", NoArgs, hex2rgb(color), color, "")
Hsv2rgb == isHSV(color) /\ Call("hsv2rgb", NoArgs, hsv2rgb(color), color, "")
Hex2websafe == Call("hex2websafe", NoArgs, hex2websafe(color), color, "")
ExpandHexColor == Call("expandHexColor", NoArgs, expandHexColor(color), color, "")

CreateColorScheme ==
    \E name \in SchemeNames \cup {"rainbow"}, format \in Formats, algorithm \in Algorithms :
        /\ algorithm # colorDefaultProps.algorithm => name \in {"monochromatic", "mono"}
        /\ Call("createColorScheme",
                [NoArgs EXCEPT !.mode = format, !.name = name, !.n = algorithm],
                createColorScheme(color, name, format, [algorithm |-> algorithm]),
                color, createColorScheme_warn(color, name))

\* equal(color, x) for the x the call before returned
Equal ==
    /\ pc = "done"
    /\ ret.kind \notin {"none", "throw", "bool", "list"}
    /\ op' = "equal"
    /\ args' = [NoArgs EXCEPT !.name = op, !.mode = args.mode]
    /\ ret' = equal(color, ret)
    /\ warned' = ""
    /\ UNCHANGED <<color, pc, amount, ring, type, held, calls>>

\* f(x) for the x the call f(color) before returned, f one of expandHexColor
\* and websafe
Again(name, value) ==
    /\ pc = "done"
    /\ op = name
    /\ ~IsThrow(ret)
    /\ op' = "again"
    /\ args' = [NoArgs EXCEPT !.name = name]
    /\ ret' = value
    /\ warned' = ""
    /\ UNCHANGED <<color, pc, amount, ring, type, held, calls>>

ExpandHexColorAgain == Again("expandHexColor", expandHexColor(ret))
WebsafeAgain == Again("websafe", websafe(ret))

\* the text of a record of one of the six classes, and parseColor of that text
ColorToString ==
    /\ color.kind \in {"rgb", "rgba", "hsv", "hsl", "hsla", "cmyk"}
    /\ Call("colorToString", NoArgs, colorToString(color), color, "")
ParseColorAgain == Again("colorToString", parseColor(ret))

\* the caller drops the result and is ready for the next call
Discard ==
    /\ pc = "done"
    /\ pc' = "ready"
    /\ ret' = None
    /\ op' = "new"
    /\ args' = NoArgs
    /\ warned' = ""
    /\ amount' = 0
    /\ ring' = FALSE
    /\ type' = ""
    /\ UNCHANGED <<color, held, calls>>

\* lighten up to its do .. while
LightenEnter(name, n, first) ==
    /\ pc = "ready"
    /\ pc' = "loop"
    /\ op' = name
    /\ args' = [NoArgs EXCEPT !.n = n]
    /\ ret' = None
    /\ warned' = ""
    /\ amount' = first
    /\ ring' = (first > 0)
    /\ type' = colorType(color)
    /\ UNCHANGED <<color, held, calls>>

Lighten == \E n \in Amounts : LightenEnter("lighten", n, n)

\* darken calls lighten(color, -1 * Math.abs(amount))
Darken == \E n \in Amounts : LightenEnter("darken", n, -1 * Abs(n))

\* one round of do { res = calc(toHEX(color), amount); ring ? amount-- : amount++ }
\* while (res.length < 7), and the return after the last round
LightenWhile(res) ==
    /\ amount' = IF ring THEN amount - 1 ELSE amount + 1
    /\ IF Len(res.str) < 7
       THEN UNCHANGED <<pc, ret>>
       ELSE /\ pc' = "done"
            /\ ret' = toColor(res, type, Undefined)

LightenDo(hex) ==
    IF IsThrow(hex)
    THEN /\ ret' = hex
         /\ pc' = "done"
         /\ UNCHANGED amount
    ELSE LightenWhile(calc(hex, amount))

LightenLoop ==
    /\ pc = "loop"
    /\ amount >= -MaxRetry
    /\ LightenDo(toHEX(color))
    /\ UNCHANGED <<color, op, args, warned, ring, type, held, calls>>

Next ==
    \/ ToRGB \/ ToRGBA \/ ToHSV \/ ToHSL \/ ToHSLA \/ ToCMYK \/ ToHEX \/ ToColor
    \/ Websafe \/ Grayscale \/ HueShift \/ IsDark \/ IsLight
    \/ Hex2rgb \/ Hsv2rgb \/ Hex2websafe \/ ExpandHexColor
    \/ CreateColorScheme
    \/ Lighten \/ Darken \/ LightenLoop
    \/ ColorToString \/ ParseColorAgain
    \/ Equal \/ ExpandHexColorAgain \/ WebsafeAgain \/ Discard

Spec == Init /\ [][Next]_vars

\* a round of the do .. while that is followed by a further round: inside the
\* loop the steps of Next are those of LightenLoop, and these are the ones
\* among them that stay inside
LightenRetry ==
    /\ pc = "loop"
    /\ amount >= -MaxRetry
    /\ pc' = "loop"
    /\ amount' \in {amount - 1, amount + 1}
    /\ UNCHANGED <<color, ret, op, args, warned, ring, type, held, calls>>

\* a call that has started runs on: lighten is never suspended inside its loop
FairSpec == Spec /\ WF_vars(LightenRetry)

----------------------------------------------------------------------------
(* The pairwise routines on RGB triples *)

\* channel values: the ends of the range, their neighbours, and values between
Bytes == {0, 1, 2, 13, 51, 102, 127, 128, 153, 204, 254, 255}
Triples == {RGB(Num(r), Num(g), Num(b)) : r \in Bytes, g \in Bytes, b \in Bytes}

TripleInit ==
    /\ color \in Triples
    /\ ret = None
    /\ op = "new"
    /\ args = NoArgs
    /\ warned = ""
    /\ pc = "ready"
    /\ amount = 0
    /\ ring = FALSE
    /\ type = ""
    /\ held = <<>>
    /\ calls = 0

Rgb2hsv == Call("rgb2hsv", NoArgs, rgb2hsv(color), color, "")
Hsv2rgbAgain == Again("rgb2hsv", hsv2rgb(ret))
Rgb2hex == Call("rgb2hex", NoArgs, rgb2hex(color), color, "")
Hex2rgbAgain == Again("rgb2hex", hex2rgb(ret))

TripleNext == Rgb2hsv \/ Hsv2rgbAgain \/ Rgb2hex \/ Hex2rgbAgain \/ Discard

TripleSpec == TripleInit /\ [][TripleNext]_vars

-----------------------------------------------------------------------------
(* The Color class: objects constructed on one record of the caller *)

Wrappers == {1, 2}

\* the longest sequence of method calls followed
MaxCalls == 2

\* a _value that is the record the caller passed, held by reference
Given == [kind |-> "ref"]

\* an object returned by one of its methods (return this)
This(w) == [kind |-> "this", w |-> w]

\* the records a caller passes to the constructor
Records == Colors \ HexColors

\* the texts of colors a caller passes, and texts of no color
Texts ==
    {Str(<<"r", "g", "b", "(", "2", "5", "5", ",", "1", "0", "2", ",", "0", ")">>), Str(<<"r", "g", "b", "a", "(", "0", ",", "1", "2", "8", ",", "5", ",", "0", ".", "5", ")">>),
     Str(<<"h", "s", "v", "(", "3", "6", "0", ",", "1", ",", "1", ")">>), Str(<<"h", "s", "l", "(", "6", "0", ",", "1", ",", "0", ".", "5", ")">>),
     Str(<<"h", "s", "l", "a", "(", "6", "0", ",", "1", ",", "0", ".", "5", ",", "0", ".", "5", ")">>), Str(<<"c", "m", "y", "k", "(", "0", ",", "5", "0", ",", "1", "0", "0", ",", "0", ")">>),
     Str(<<"R", "G", "B", "(", "-", "5", ",", " ", "0", ",", " ", "2", "5", "5", ")">>), Str(<<"h", "e", "l", "l", "o">>)}

\* what a caller passes to the constructor or assigns to value
Passed == Records \cup HexColors \cup Texts \cup Others

\* if (color && isColor(color)) this._value = color; else this._value = undefined
KeepColor(parsed) == IF ~Falsy(parsed) /\ isColor(parsed) THEN parsed ELSE Undef

\* _setValue(color): black for a falsy color, the parsed color for a string,
\* the object itself, by reference, for any other color
Color_setValue(_color) ==
    IF Falsy(_color) THEN KeepColor(parseColor(Hex(<<"#", "0", "0", "0", "0", "0", "0">>)))
    ELSE IF IsString(_color) THEN KeepColor(parseColor(_color))
    ELSE IF isColor(_color) THEN Given
    ELSE Undef

WrapperInit ==
    /\ color \in Passed
    /\ held = [w \in Wrappers |-> Color_setValue(color)]
    /\ calls = 0
    /\ ret = None
    /\ op = "new"
    /\ args = NoArgs
    /\ warned = ""
    /\ pc = "ready"
    /\ amount = 0
    /\ ring = FALSE
    /\ type = ""

\* this._value of wrapper w
Value(w) == IF held[w] = Given THEN color ELSE held[w]

\* what this._value is after this._value = f(this._value, ..): result is what
\* f returns or raises, after is its argument record as f leaves it, same
\* tells that f returns its argument itself
Assigned(before, result, after, same) ==
    IF IsThrow(result) THEN (IF before = Given THEN Given ELSE after)
    ELSE IF same THEN (IF before = Given THEN Given ELSE after)
    ELSE result

\* a call of a method of wrapper w: as a statement, or, when chained is set,
\* on the object that the method called before has returned
CalledWarning(w, name, a, chained, warning) ==
    /\ pc = IF chained THEN "done" ELSE "ready"
    /\ chained => ret = This(w)
    /\ calls < MaxCalls
    /\ calls' = calls + 1
    /\ pc' = "done"
    /\ op' = name
    /\ args' = [a EXCEPT !.n = w, !.name = IF pc = "done" THEN op ELSE ""]
    /\ warned' = warning
    /\ UNCHANGED <<amount, ring, type>>

Called(w, name, a, chained) == CalledWarning(w, name, a, chained, warned)

\* a method of wrapper w whose body is if (!this._value) return;
\* this._value = f(this._value, ..); return this
Method(w, name, a, result, after, same) ==
    /\ Called(w, name, a, FALSE)
    /\ IF Falsy(Value(w))
       THEN /\ ret' = Undef
            /\ UNCHANGED <<held, color>>
       ELSE /\ ret' = IF IsThrow(result) THEN result ELSE This(w)
            /\ held' = [held EXCEPT ![w] = Assigned(held[w], result, after, same)]
            /\ color' = IF held[w] = Given THEN after ELSE color

\* a method or getter of wrapper w that returns a value and assigns nothing:
\* return this._value ? f(this._value) : undefined
Read(w, name, a, result, chained, warning) ==
    /\ CalledWarning(w, name, a, chained, IF Falsy(Value(w)) THEN warned ELSE warning)
    /\ ret' = IF Falsy(Value(w)) THEN Undef ELSE result
    /\ UNCHANGED <<held, color>>

Reader(w, name, a, result) == Read(w, name, a, result, FALSE, warned)

\* toRGB() that returns the object without converting what it holds
Color_toRGBKept(w) == Method(w, "Color.toRGB", NoArgs, Value(w), Value(w), TRUE)

Color_toRGB(w) ==
    Method(w, "Color.toRGB", NoArgs, toRGB(Value(w)), Value(w), isRGB(Value(w)))

Color_toRGBA(w) ==
    \E alpha \in Alphas :
        IF isRGBA(Value(w))
        THEN IF Truthy(alpha)
             THEN Method(w, "Color.toRGBA", [NoArgs EXCEPT !.alpha = alpha],
                         toRGBA(Value(w), alpha), toRGBA_color(Value(w), alpha), TRUE)
             ELSE Method(w, "Color.toRGBA", [NoArgs EXCEPT !.alpha = alpha],
                         Value(w), Value(w), TRUE)
        ELSE Method(w, "Color.toRGBA", [NoArgs EXCEPT !.alpha = alpha],
                    toRGBA(Value(w), IF Truthy(alpha) THEN alpha ELSE colorDefaultProps.alpha),
                    Value(w), FALSE)

Color_toHEX(w) == Method(w, "Color.toHEX", NoArgs, toHEX(Value(w)), Value(w), FALSE)
Color_toHSV(w) == Method(w, "Color.toHSV", NoArgs, toHSV(Value(w)), Value(w), FALSE)
Color_toHSL(w) == Method(w, "Color.toHSL", NoArgs, toHSL(Value(w)), Value(w), FALSE)

Color_toHSLA(w) ==
    \E alpha \in Alphas :
        IF isHSLA(Value(w))
        THEN IF Truthy(alpha)
             THEN Method(w, "Color.toHSLA", [NoArgs EXCEPT !.alpha = alpha],
                         toHSLA(Value(w), alpha), toHSLA_color(Value(w), alpha), TRUE)
             ELSE Method(w, "Color.toHSLA", [NoArgs EXCEPT !.alpha = alpha],
                         Value(w), Value(w), TRUE)
        ELSE Method(w, "Color.toHSLA", [NoArgs EXCEPT !.alpha = alpha],
                    toHSLA(Value(w), alpha), Value(w), FALSE)

Color_toCMYK(w) == Method(w, "Color.toCMYK", NoArgs, toCMYK(Value(w)), Value(w), FALSE)

\* websafe returns its argument itself when it is of none of the six kinds
\* it tests, as an HSLA is
Color_toWebsafe(w) ==
    Method(w, "Color.toWebsafe", NoArgs, websafe(Value(w)), Value(w),
           ~(isHEX(Value(w)) \/ isRGB(Value(w)) \/ isRGBA(Value(w)) \/ isHSV(Value(w))
             \/ isHSL(Value(w)) \/ isCMYK(Value(w))))

\* if (!this._value || this.type === colorTypes.UNKNOWN) return;
Color_grayscale(w) ==
    IF colorType(Value(w)) = colorTypes.UNKNOWN
    THEN Reader(w, "Color.grayscale", NoArgs, Undef)
    ELSE Method(w, "Color.grayscale", NoArgs, grayscale(Value(w)), Value(w), FALSE)

\* toString(), as a statement and chained on the object a method has returned
Color_toString(w) ==
    \E chained \in BOOLEAN :
        Read(w, "Color.toString", NoArgs, colorToString(Value(w)), chained, warned)

\* the getters
Color_rgb(w) == Reader(w, "Color.rgb", NoArgs, toRGB(Value(w)))
Color_hex(w) == Reader(w, "Color.hex", NoArgs, toHEX(Value(w)))
Color_hsv(w) == Reader(w, "Color.hsv", NoArgs, toHSV(Value(w)))
Color_hsl(w) == Reader(w, "Color.hsl", NoArgs, toHSL(Value(w)))
Color_cmyk(w) == Reader(w, "Color.cmyk", NoArgs, toCMYK(Value(w)))
Color_websafe(w) == Reader(w, "Color.websafe", NoArgs, websafe(Value(w)))
Color_rgba(w) ==
    Reader(w, "Color.rgba", NoArgs,
           IF isRGBA(Value(w)) THEN Value(w) ELSE toRGBA(Value(w), colorDefaultProps.alpha))
Color_hsla(w) ==
    Reader(w, "Color.hsla", NoArgs,
           IF isHSLA(Value(w)) THEN Value(w) ELSE toHSLA(Value(w), colorDefaultProps.alpha))

Color_isDark(w) == Reader(w, "Color.isDark", NoArgs, isDark(Value(w)))
Color_isLight(w) == Reader(w, "Color.isLight", NoArgs, isLight(Value(w)))

\* getScheme(name, format) with no options
Color_getScheme(w) ==
    \E name \in {"complementary", "rainbow"}, format \in {"rgb"} :
        Read(w, "Color.getScheme", [NoArgs EXCEPT !.mode = format],
             createColorScheme(Value(w), name, format, [algorithm |-> colorDefaultProps.algorithm]),
             FALSE, createColorScheme_warn(Value(w), name))

\* the amounts passed to lighten and darken of an object
Steps == {-10, 10}

\* lighten(amount) and darken(amount); a call whose loop does not end within
\* MaxRetry rounds is left running
Lightened(w, name, n, result) ==
    /\ pc = "ready"
    /\ calls < MaxCalls
    /\ IF Falsy(Value(w)) \/ result # None
       THEN Method(w, name, [NoArgs EXCEPT !.n = n], result, Value(w), FALSE)
       ELSE /\ op' = name
            /\ args' = [NoArgs EXCEPT !.n = n]
            /\ pc' = "loop"
            /\ ret' = None
            /\ UNCHANGED <<color, held, calls, warned, amount, ring, type>>

Color_lighten(w) == \E n \in Steps : Lightened(w, "Color.lighten", n, lighten(Value(w), n))
Color_darken(w) == \E n \in Steps : Lightened(w, "Color.darken", n, darken(Value(w), n))

\* what a caller assigns to value
Assignable ==
    {Undef, Null, Number(Num(0)), Str(<<>>), Str(<<"h", "e", "l", "l", "o">>), Hex(<<"#", "f", "f", "f">>),
     HSV(Num(360), Num(1), Num(1)), RGBA(Num(0), Num(128), Num(5), <<1, 2>>)}

\* object.value = x: the object holds x itself when x is a color record
Color_value(w) ==
    \E x \in Assignable :
        /\ Called(w, "Color.value", NoArgs, FALSE)
        /\ ret' = x
        /\ held' = [held EXCEPT ![w] = IF Color_setValue(x) = Given THEN x ELSE Color_setValue(x)]
        /\ UNCHANGED color

\* randomColor(colorType, alpha) for the bytes r, g, b that rnd(0, 255) gives;
\* a colorType left out is "hex"
randomColor(r, g, b, _type, alpha) ==
    IF _type = "hex" THEN rgb2hex(RGB(Num(r), Num(g), Num(b)))
    ELSE toColor(rgb2hex(RGB(Num(r), Num(g), Num(b))), _type, alpha)

\* random(colorType, alpha) returns nothing
Color_random(w) ==
    \E r \in {0, 255}, g \in {102}, b \in {13}, _type \in {"hex", "rgba"},
       alpha \in {<<1, 2>>} :
        /\ Called(w, "Color.random", [NoArgs EXCEPT !.alpha = alpha], FALSE)
        /\ ret' = Undef
        /\ held' = [held EXCEPT ![w] = randomColor(r, g, b, _type, alpha)]
        /\ UNCHANGED color

\* hueShift(angle): the routine's alpha is left to its default
Color_hueShift(w) ==
    \E angle \in Angles :
        Method(w, "Color.hueShift", NoArgs, hueShift(Value(w), angle, Undefined), Value(w), FALSE)

\* the calls are made on the first object; the second only holds the record
WrapperNext ==
    \E w \in {1} :
        \/ Color_toRGB(w) \/ Color_toRGBA(w) \/ Color_toHEX(w) \/ Color_toHSV(w)
        \/ Color_toHSL(w) \/ Color_toHSLA(w) \/ Color_toCMYK(w)
        \/ Color_toWebsafe(w) \/ Color_grayscale(w)
        \/ Color_hueShift(w)
        \/ Color_lighten(w) \/ Color_darken(w)
        \/ Color_toString(w)
        \/ Color_rgb(w) \/ Color_rgba(w) \/ Color_hex(w) \/ Color_hsv(w)
        \/ Color_hsl(w) \/ Color_hsla(w) \/ Color_cmyk(w) \/ Color_websafe(w)
        \/ Color_isDark(w) \/ Color_isLight(w) \/ Color_getScheme(w)
        \/ Color_value(w) \/ Color_random(w)
        \/ Discard

WrapperSpec == WrapperInit /\ [][WrapperNext]_vars

-----------------------------------------------------------------------------
(* parseColor on the functional notations: name(token, token, ..) *)

FunctionNames == {<<"r", "g", "b">>, <<"r", "g", "b", "a">>, <<"c", "m", "y", "k">>, <<"h", "s", "v">>, <<"h", "s", "l">>, <<"h", "s", "l", "a">>}

\* rgba, cmyk and hsla list four numbers, rgb, hsv and hsl three
Arity(name) == IF Len(name) = 4 THEN 4 ELSE 3

\* the numeric tokens written in the texts
Tokens == {<<"-", "5">>, <<"0">>, <<"2", "5", "5">>, <<"0", ".", "5">>}

RECURSIVE Joined(_)
Joined(toks) ==
    IF Len(toks) = 1 THEN toks[1] ELSE toks[1] \o <<",">> \o Joined(Tail(toks))

FunctionText(name, toks) == Str(name \o <<"(">> \o Joined(toks) \o <<")">>)

FunctionTexts ==
    UNION {{FunctionText(name, toks) : toks \in [1..Arity(name) -> Tokens]} : name \in FunctionNames}

TextInit ==
    /\ color \in FunctionTexts
    /\ ret = None
    /\ op = "new"
    /\ args = NoArgs
    /\ warned = ""
    /\ pc = "ready"
    /\ amount = 0
    /\ ring = FALSE
    /\ type = ""
    /\ held = <<>>
    /\ calls = 0

ParseColor == Call("parseColor", NoArgs, parseColor(color), color, "")
ColorToStringAgain == Again("parseColor", colorToString(ret))

TextNext == ParseColor \/ ColorToStringAgain \/ Discard

TextSpec == TextInit /\ [][TextNext]_vars

-----------------------------------------------------------------------------
(* Properties *)

\* a string of the HEX form, or a record of one of the six classes
OfSevenKinds(c) ==
    \/ c.kind = "str" /\ isHEX(c)
    \/ c.kind \in {"rgb", "rgba", "hsv", "hsl", "hsla", "cmyk"}

\* "#" followed by exactly six lower-case hexadecimal digits
IsLowerHex6(x) ==
    /\ x.kind = "str"
    /\ Len(x.str) = 7
    /\ x.str[1] = "#"
    /\ \A i \in 2..7 : \E d \in 1..16 : Digits16[d] = x.str[i]

Conversions == {"toRGB", "toRGBA", "toHSV", "toHSL", "toHSLA", "toCMYK", "toHEX", "toColor"}

\* the call just made was given no alpha argument
NoAlphaGiven == args.alpha = Undefined

\* the last call produced an RGBA or an HSLA record
ToAlphaKind ==
    \/ op \in {"toRGBA", "toHSLA"}
    \/ op = "toColor" /\ args.mode \in {"rgba", "hsla"}

\* C1: for every valid color and every integer amount, lighten and darken
\* terminate: once the retry loop is entered, it is left and the call returns.
C1_LightenTerminates == (pc = "loop" /\ OfSevenKinds(color)) ~> (pc = "done")

\* C2: no conversion or transform changes a field of the record passed to it:
\* after any call the argument has the value it had before the call.
C2_ArgumentUnchanged == [][color' = color]_vars

\* C3: converting a color that carries no alpha to RGBA or HSLA without an
\* alpha argument, by toRGBA, toHSLA or toColor, yields a record whose alpha is 1.
C3_DefaultAlphaIsOne ==
    (/\ pc = "done"
     /\ ToAlphaKind
     /\ NoAlphaGiven
     /\ OfSevenKinds(color)
     /\ color.kind \notin {"rgba", "hsla"})
    => (ret.kind \in {"rgba", "hsla"} /\ ret.a = Num(1))

\* the alpha of the result of toRGBA / toHSLA on a source that carries an alpha:
\* an explicit non-zero argument, otherwise the alpha of the source
ExpectedAlpha(source, alpha) ==
    IF alpha # Undefined /\ Truthy(alpha) THEN alpha ELSE source.a

\* C4: toRGBA / toHSLA on an RGBA or HSLA source keeps the source's alpha when
\* no alpha argument is passed, and replaces it only by an explicit non-zero
\* alpha argument.
C4_SourceAlphaKept ==
    [][(/\ pc = "ready"
        /\ pc' = "done"
        /\ op' \in {"toRGBA", "toHSLA"}
        /\ color.kind \in {"rgba", "hsla"})
       => ret'.a = ExpectedAlpha(color, args'.alpha)]_vars

\* C5: equality is conversion-invariant: for every valid color c, in either
\* letter case and in 3- or 6-digit form, equal(c, toK(c)) is true for every
\* conversion toK.
C5_EqualAfterConversion ==
    (op = "equal" /\ args.name \in Conversions /\ OfSevenKinds(color))
    => ret = Bool(TRUE)

\* C6: for every valid color c of any kind, toHEX(c) is "#" followed by exactly
\* six lower-case hexadecimal digits.
C6_HexIsSixLowerDigits ==
    (pc = "done" /\ op = "toHEX" /\ OfSevenKinds(color)) => IsLowerHex6(ret)

\* every element of the returned sequence is a value of the requested format
AllOfFormat(result, format) ==
    /\ result.kind = "list"
    /\ \A i \in 1..Len(result.items) :
        /\ OfSevenKinds(result.items[i])
        /\ colorType(result.items[i]) = format

\* C7: for every valid color, scheme name, monochromatic algorithm and output
\* format in {hex, rgb, rgba, hsl, hsla, cmyk}, createColorScheme returns a
\* sequence whose every sample is a value of the requested format.
C7_SchemeConverted ==
    (/\ pc = "done"
     /\ op = "createColorScheme"
     /\ OfSevenKinds(color)
     /\ args.name \in SchemeNames
     /\ args.mode \in Modes \ {"hsv"})
    => AllOfFormat(ret, args.mode)

\* C8: createColorScheme never raises: for a value that is no color it returns
\* false with a warning, for an unknown scheme name an empty result with a
\* warning.
C8_SchemeNeverRaises ==
    (pc = "done" /\ op = "createColorScheme")
    => /\ ~IsThrow(ret)
       /\ ~OfSevenKinds(color) => (ret = Bool(FALSE) /\ warned # "")
       /\ (OfSevenKinds(color) /\ args.name \notin SchemeNames)
          => (ret = List(<<>>) /\ warned # "")

\* C9: every operation on any input either returns a value or raises exactly
\* UnknownFormat or InvalidInput; no other error condition is raised.
C9_OnlyTwoErrors == IsThrow(ret) => ret.err \in {"UnknownFormat", "InvalidInput"}

\* C10: toRGB returns an RGB record for every value of the seven kinds and
\* raises UnknownFormat for every other value; toHSV, toHSL, toCMYK and
\* grayscale raise UnknownFormat on exactly those other values.
C10_UnknownFormatOnOthers ==
    /\ (pc = "done" /\ op = "toRGB")
       => IF OfSevenKinds(color) THEN ret.kind = "rgb" ELSE ret = Throw("UnknownFormat")
    /\ (pc = "done" /\ op \in {"toHSV", "toHSL", "toCMYK", "grayscale"})
       => (OfSevenKinds(color) <=> ret # Throw("UnknownFormat"))

\* 299 r + 587 g + 114 b < 128000 for an RGB record of integer channels; a
\* channel that is NaN makes the comparison false
LumaBelow(rgb) ==
    /\ IsNum(rgb.r) /\ IsNum(rgb.g) /\ IsNum(rgb.b)
    /\ 299 * rgb.r[1] + 587 * rgb.g[1] + 114 * rgb.b[1] < 128000

\* C11: for every value that is not a color isDark and isLight both return
\* undefined and do not raise; for every valid color isDark(c) is true iff
\* 299r + 587g + 114b < 128000 for c's RGB form, and isLight(c) is its negation.
C11_DarkLightOrAbsent ==
    /\ (pc = "done" /\ op = "isDark")
       => IF OfSevenKinds(color) THEN ret = Bool(LumaBelow(toRGB(color))) ELSE ret = Undef
    /\ (pc = "done" /\ op = "isLight")
       => IF OfSevenKinds(color) THEN ret = Bool(~LumaBelow(toRGB(color))) ELSE ret = Undef

\* |x - y| <= tol for two numbers; NaN is near nothing
NearBy(x, y, tol) == IsNum(x) /\ IsNum(y) /\ Le(Sub(x, y), tol) /\ Le(Sub(y, x), tol)

\* the fields of a color record, with the rounding allowed on each: one unit
\* of a channel or of a degree, a hundredth of s, v and l, nothing on alpha
Rounding ==
    [r |-> Num(1), g |-> Num(1), b |-> Num(1), c |-> Num(1), m |-> Num(1), y |-> Num(1),
     k |-> Num(1), h |-> Num(1), s |-> <<1, 100>>, v |-> <<1, 100>>, l |-> <<1, 100>>,
     a |-> Num(0)]

\* x and y are records of the same kind whose fields agree up to rounding, or
\* HEX strings whose channels agree up to rounding
SameUpToRounding(x, y) ==
    /\ x.kind = y.kind
    /\ IF x.kind = "str"
       THEN /\ isHEX(x) /\ isHEX(y)
            /\ \A f \in {"r", "g", "b"} : NearBy(hex2rgb(x)[f], hex2rgb(y)[f], Rounding[f])
       ELSE \A f \in (DOMAIN x) \ {"kind"} : NearBy(x[f], y[f], Rounding[f])

\* C12: hueShift(c, 360) without an alpha argument returns a color whose every
\* field, alpha included, equals the field of c up to channel rounding.
C12_FullTurnIsIdentity ==
    (/\ pc = "done"
     /\ op = "hueShift"
     /\ args.n = 360
     /\ NoAlphaGiven
     /\ OfSevenKinds(color))
    => SameUpToRounding(ret, color)

\* C13: expandHexColor is idempotent on every string it accepts, bare strings
\* without "#" and 4-character strings starting with "#" included:
\* expandHexColor(expandHexColor(x)) = expandHexColor(x).
C13_ExpandIdempotent ==
    (op = "again" /\ args.name = "expandHexColor" /\ IsString(color))
    => ret = expandHexColor(color)

\* x and y are the same string, or records of the same kind whose fields are
\* equal numbers (=== on each field: NaN equals nothing)
SameFields(x, y) ==
    /\ x.kind = y.kind
    /\ IF x.kind = "str" THEN x.str = y.str
       ELSE \A f \in (DOMAIN x) \ {"kind"} : Eq(x[f], y[f])

\* C14: websafe is idempotent for every valid color of every kind:
\* websafe(websafe(x)) equals websafe(x) field by field.
C14_WebsafeIdempotent ==
    (op = "again" /\ args.name = "websafe" /\ OfSevenKinds(color))
    => SameFields(ret, websafe(color))

\* C15: for every valid color c and every integer amount n, whatever its sign,
\* darken(c, n) returns what lighten(c, -n) returns.
C15_DarkenIsLightenNegated ==
    (pc = "done" /\ op = "darken" /\ OfSevenKinds(color))
        => ret = lighten(color, -args.n)

\* |x - y| <= 1 for two channel values
WithinOne(x, y) == NearBy(x, y, Num(1))

\* C16: for every RGB triple x with integer channels in 0..255,
\* hsv2rgb(rgb2hsv(x)) differs from x by at most 1 in each channel.
C16_HsvRoundTrip ==
    (op = "again" /\ args.name = "rgb2hsv")
        => /\ ret.kind = "rgb"
           /\ WithinOne(ret.r, color.r)
           /\ WithinOne(ret.g, color.g)
           /\ WithinOne(ret.b, color.b)

\* hsv2rgb(rgb2hsv(x)) has been computed for a triple of the branch
\* max === r && g < b
C16_HsvRoundTripDone ==
    /\ op = "again" /\ args.name = "rgb2hsv"
    /\ color = RGB(Num(255), Num(2), Num(254))
    /\ ret = color

\* the two hexadecimal digits of a byte, zero-padded
Byte2(n) == <<Digits16[(n \div 16) + 1], Digits16[(n % 16) + 1]>>

\* C17: for every RGB triple x with integer channels in 0..255,
\* hex2rgb(rgb2hex(x)) equals x exactly, and rgb2hex(x) is "#" followed by six
\* lower-case hexadecimal digits, each byte zero-padded.
C17_HexRoundTrip ==
    /\ (op = "again" /\ args.name = "rgb2hex") => ret = color
    /\ (pc = "done" /\ op = "rgb2hex")
           => /\ IsLowerHex6(ret)
              /\ ret.str = <<"#">> \o Byte2(color.r[1]) \o Byte2(color.g[1]) \o Byte2(color.b[1])

\* hex2rgb(rgb2hex(x)) has been computed for a triple whose bytes need padding
C17_HexRoundTripDone ==
    /\ op = "again" /\ args.name = "rgb2hex"
    /\ color = RGB(Num(0), Num(13), Num(255))
    /\ ret = color

\* x wrapped into [0, 360); NaN when x is no number
Wrapped(x) == IF IsNum(x) THEN Sub(x, Mul(Num(360), MathFloor(Div(x, Num(360))))) ELSE NaN

\* the hue offsets of the samples of a scheme, in order, for the default
\* angle of 30 degrees
Offsets(name) ==
    CASE name \in {"complementary", "complement", "comp"} -> <<0, 180>>
      [] name \in {"double-complementary", "double-complement", "double"} -> <<0, 180, 210, 390>>
      [] name \in {"analogous", "analog"} -> <<30, 0, -30>>
      [] name \in {"triadic", "triad"} -> <<0, 120, 240>>
      [] name \in {"tetradic", "tetra"} -> <<0, 180, -30, 150>>
      [] name = "square" -> <<0, 90, 180, 270>>
      [] name \in {"split-complementary", "split-complement", "split"} -> <<150, 0, 210>>

IsSampleOf(x, hsv, offset) ==
    /\ "h" \in DOMAIN x /\ "s" \in DOMAIN x /\ "v" \in DOMAIN x
    /\ Eq(x.h, Wrapped(Add(hsv.h, Num(offset))))
    /\ Eq(x.s, hsv.s) /\ Eq(x.v, hsv.v)

IsSchemeOf(list, hsv, offsets) ==
    /\ list.kind = "list"
    /\ Len(list.items) = Len(offsets)
    /\ \A i \in 1..Len(offsets) : IsSampleOf(list.items[i], hsv, offsets[i])

\* the source of a scheme as h, s and v: an HSV color itself, the conversion
\* of a color of another kind
SourceHSV(c) == IF c.kind = "hsv" THEN c ELSE toHSV(c)

\* C18: for every valid color and each non-monochromatic scheme name or
\* alias, createColorScheme with format "hsv" returns the scheme's number of
\* samples in the scheme's order, each sample's hue the stated offset from the
\* source hue wrapped into [0, 360), and each sample's s and v the source's.
C18_SchemeSamples ==
    (/\ pc = "done" /\ op = "createColorScheme" /\ args.mode = "hsv"
     /\ args.name \in SchemeNames \ {"monochromatic", "mono"}
     /\ OfSevenKinds(color))
        => IsSchemeOf(ret, SourceHSV(color), Offsets(args.name))

\* the kind of a color by the class of its record; a string is a HEX
KindOf(x) == IF x.kind = "str" THEN "hex" ELSE x.kind

\* C19: grayscale, lighten, darken, hueShift and websafe each return a color
\* of the same kind as their input, for every valid color of the seven kinds,
\* and colorType agrees.
C19_KindKept ==
    (/\ pc = "done" /\ op \in {"grayscale", "lighten", "darken", "hueShift", "websafe"}
     /\ OfSevenKinds(color))
        => /\ KindOf(ret) = KindOf(color)
           /\ colorType(ret) = colorType(color)
           /\ colorType(color) = KindOf(color)

\* grayscale has returned an HSLA for an HSLA
C19_KindKeptDone ==
    /\ pc = "done" /\ op = "grayscale"
    /\ color.kind = "hsla" /\ ret.kind = "hsla"

\* C20: a Color object changes its color only by replacing its held
\* reference: whatever methods are called on one object, toRGBA(alpha) and
\* toHSLA(alpha) on an RGBA or HSLA included, the record the caller passed to
\* the constructor and the value seen through another object constructed on
\* the same record do not change.
C20_HeldRecordNotWritten ==
    [][(calls' = calls + 1) => (color' = color /\ Value(2)' = Value(2))]_vars

\* the channel a hex text of 3 or 6 digits gives at position i of 1..3
ChannelOf(text, i) ==
    IF Len(text) = 4 THEN 17 * HexValue(text[i + 1])
    ELSE 16 * HexValue(text[2 * i]) + HexValue(text[2 * i + 1])

IsChannel(x) == IsNum(x) /\ x[2] = 1 /\ x[1] \in 0..255

\* C22: for every HSV value with h in 0..360 (both bounds included) and s, v in
\* [0,1], hsv2rgb returns three integer channels in 0..255, and h = 360 gives
\* the same RGB as h = 0.
C22_Hsv2rgbFullTurn ==
    (pc = "done" /\ op = "hsv2rgb")
    => /\ isRGB(ret) /\ IsChannel(ret.r) /\ IsChannel(ret.g) /\ IsChannel(ret.b)
       /\ color.h = Num(360) => ret = hsv2rgb(HSV(Num(0), color.s, color.v))

\* n brought into 0..255
ClampChannel(n) == IF n > 255 THEN 255 ELSE IF n < 0 THEN 0 ELSE n

\* C23: whenever lighten(c, n) returns for a HEX color c and an integer n, each
\* of the three channels of the result is the channel of c plus n, clamped to
\* 0..255.
C23_LightenClampsChannels ==
    (pc = "done" /\ op = "lighten" /\ IsString(color) /\ isHEX(color) /\ ~IsThrow(ret))
    => /\ IsString(ret)
       /\ Len(ret.str) = 7
       /\ \A i \in 1..3 :
              ChannelOf(ret.str, i) = ClampChannel(ChannelOf(color.str, i) + args.n)

\* the number a token stands for, as a float and cut to an integer
TokenValue(tok, float) ==
    CASE tok = <<"-", "5">> -> Num(-5)
      [] tok = <<"0">> -> Num(0)
      [] tok = <<"2", "5", "5">> -> Num(255)
      [] tok = <<"0", ".", "5">> -> IF float THEN <<1, 2>> ELSE Num(0)

\* the record of the class a notation names, with v as its fields in order
FunctionRecord(name, v) ==
    CASE name = <<"r", "g", "b">> -> RGB(v[1], v[2], v[3])
      [] name = <<"r", "g", "b", "a">> -> RGBA(v[1], v[2], v[3], v[4])
      [] name = <<"c", "m", "y", "k">> -> CMYK(v[1], v[2], v[3], v[4])
      [] name = <<"h", "s", "v">> -> HSV(v[1], v[2], v[3])
      [] name = <<"h", "s", "l">> -> HSL(v[1], v[2], v[3])
      [] name = <<"h", "s", "l", "a">> -> HSLA(v[1], v[2], v[3], v[4])

\* C24: parseColor of a functional color text builds the record from the
\* numeric tokens in positional order with the sign kept (a token with a
\* leading '-' gives a negative field), read as floats when the text contains
\* "hs" and as integers otherwise.
C24_ParseKeepsSign ==
    (pc = "done" /\ op = "parseColor")
    => \A name \in FunctionNames : \A toks \in [1..Arity(name) -> Tokens] :
           color = FunctionText(name, toks)
           => ret = FunctionRecord(name, [i \in 1..Arity(name) |->
                                             TokenValue(toks[i], name[1] = "h")])

\* the largest and the smallest of the three channels of an RGB triple
MaxChannel(rgb) == Max2(Max2(rgb.r, rgb.g), rgb.b)
MinChannel(rgb) == Min2(Min2(rgb.r, rgb.g), rgb.b)

\* C25: for every RGB triple with integer channels in 0..255, rgb2hsv returns
\* h in [0,360) (also in the branch max = r and g < b), s in [0,1] and v in
\* [0,1], with h = 0 when max = min and s = 0 when max = 0.
C25_Rgb2hsvRanges ==
    (pc = "done" /\ op = "rgb2hsv")
    => /\ isHSV(ret)
       /\ Ge(ret.h, Num(0)) /\ Lt(ret.h, Num(360))
       /\ Ge(ret.s, Num(0)) /\ Le(ret.s, Num(1))
       /\ Ge(ret.v, Num(0)) /\ Le(ret.v, Num(1))
       /\ MaxChannel(color) = MinChannel(color) => ret.h = Num(0)
       /\ MaxChannel(color) = Num(0) => ret.s = Num(0)

\* rgb2hsv has returned a hue of the last sixth of the circle for a triple with
\* max = r and g < b
C25_Rgb2hsvRangesDone ==
    /\ pc = "done" /\ op = "rgb2hsv"
    /\ color = RGB(Num(255), Num(0), Num(1))
    /\ Gt(ret.h, Num(359)) /\ Lt(ret.h, Num(360))

\* C26: after any sequence of operations of a Color object, started from a
\* string or from a record with components in the documented ranges (hue 0..360
\* inclusive), the held value is either absent or a color (isColor holds).
C26_HeldIsColor ==
    \A w \in Wrappers : Value(w) = Undef \/ isColor(Value(w))

\* the six values of a channel of the web-safe palette
WebsafeLevels == {Num(0), Num(51), Num(102), Num(153), Num(204), Num(255)}

\* C27: for every valid color c of each of the seven kinds, the RGB form of
\* websafe(c) has every channel in {0, 51, 102, 153, 204, 255}.
C27_WebsafeChannels ==
    (pc = "done" /\ op = "websafe" /\ OfSevenKinds(color))
    => /\ ~IsThrow(ret)
       /\ ~IsThrow(toRGB(ret))
       /\ toRGB(ret).r \in WebsafeLevels
       /\ toRGB(ret).g \in WebsafeLevels
       /\ toRGB(ret).b \in WebsafeLevels

\* C28: for every record c of the six classes with components in the
\* documented ranges, parseColor of the text of c is a record of the same class
\* with the same field values, the fractional alpha of an RGBA included.
C28_TextRoundTrip ==
    (pc = "done" /\ op = "again" /\ args.name = "colorToString") => ret = color

\* C29: grayscale, lighten, darken and hueShift, called without an alpha
\* argument on an RGBA or HSLA color, return a color whose alpha equals the
\* alpha of the input.
C29_AlphaKept ==
    (/\ pc = "done" /\ op \in {"grayscale", "lighten", "darken", "hueShift"}
     /\ NoAlphaGiven
     /\ color.kind \in {"rgba", "hsla"})
    => /\ ret.kind = color.kind
       /\ ret.a = color.a

\* the methods and getters that answer with nothing on an object that holds no
\* color
Answering ==
    {"Color.toRGB", "Color.toRGBA", "Color.toHEX", "Color.toHSV", "Color.toHSL",
     "Color.toHSLA", "Color.toCMYK", "Color.toWebsafe", "Color.darken", "Color.lighten",
     "Color.hueShift", "Color.grayscale", "Color.getScheme", "Color.isDark", "Color.isLight",
     "Color.toString", "Color.rgb", "Color.rgba", "Color.hex", "Color.hsv", "Color.hsl",
     "Color.hsla", "Color.cmyk", "Color.websafe"}

\* C30: once a Color object holds no value, every conversion, toWebsafe, darken,
\* lighten, hueShift, grayscale, getScheme, isDark, isLight, toString and
\* format getter returns undefined without raising and leaves the object
\* empty; the object stays empty until value is set to a valid color or
\* random() is called.
C30_EmptyStaysEmpty ==
    [][(Value(1) = Undef /\ calls' = calls + 1)
       => \/ op' = "Color.random"
          \/ op' = "Color.value" /\ ~Falsy(ret') /\ isColor(ret')
          \/ /\ Value(1)' = Undef
             /\ op' \in Answering => ret' = Undef]_vars

====
